---------------------------- MODULE Spec2Model ----------------------------
(***************************************************************************)
(* A model of src/request.js: the type classifier typeOf, the request      *)
(* builder returned by requestFactory(baseURL, apiVersion)(URI) with its   *)
(* fluent mutators and terminal dispatchers, and the async function        *)
(* withMiddleware that runs the header and body middlewares before the     *)
(* transport (fetch) is called.                                            *)
(*                                                                         *)
(* JavaScript values are records tagged with their runtime kind (field k). *)
(* JavaScript runs each synchronous stretch of code to completion, so one  *)
(* action is one API call up to its return (for a dispatcher: up to the    *)
(* first await of withMiddleware that suspends), or one resumption of a    *)
(* suspended withMiddleware after the awaited middleware result settled.   *)
(***************************************************************************)
EXTENDS Integers, Sequences, FiniteSets, TLC

VARIABLES
  path,     \* path[i]  : the instance's __path (a JavaScript value)
  hdr,      \* hdr[i]   : the object the instance's __headers refers to
  heap,     \* heap[o]  : the properties of header object o
  body,     \* body[i]  : the instance's __body (a JavaScript value)
  mws,      \* mws[i]   : the instance's __middlewares object {header, body}
  calls,    \* calls[i] : the dispatches issued on the instance, oldest first
  last      \* the most recent API call: operation, arguments and outcome

vars == <<path, hdr, heap, body, mws, calls, last>>

---------------------------------------------------------------------------
(* JavaScript values *)

Undefined == [k |-> "undefined"]
Null      == [k |-> "null"]
NaN       == [k |-> "number", nan |-> TRUE, n |-> 0]
Bool(b)   == [k |-> "boolean", b |-> b]
Num(n)    == [k |-> "number", nan |-> FALSE, n |-> n]
Str(s)    == [k |-> "string", s |-> s]
Sym(s)    == [k |-> "symbol", s |-> s]
Fn(name)  == [k |-> "function", s |-> name]
\* an array literal with the given elements
Arr(elems) == [k |-> "array", e |-> elems]
\* an object literal with the given <<key, value>> properties, in order
Obj(props) == [k |-> "object", e |-> props]

\* the typeof operator: null and arrays are "object"
JsTypeof(v) == IF v.k \in {"null", "array"} THEN "object" ELSE v.k

\* Array.isArray
ArrayIsArray(v) == v.k = "array"

Digit(d) == <<"0", "1", "2", "3", "4", "5", "6", "7", "8", "9">>[d + 1]

RECURSIVE NatToString(_)
NatToString(n) ==
  IF n < 10 THEN Digit(n) ELSE NatToString(n \div 10) \o Digit(n % 10)

\* Number.prototype.toString, on NaN and on integers
NumberToString(v) ==
  IF v.nan THEN "NaN"
  ELSE IF v.n < 0 THEN "-" \o NatToString(0 - v.n) ELSE NatToString(v.n)

\* ToBoolean, as the || operator applies it
Truthy(v) ==
  CASE v.k \in {"undefined", "null"} -> FALSE
    [] v.k = "boolean" -> v.b
    [] v.k = "number"  -> ~v.nan /\ v.n # 0
    [] v.k = "string"  -> v.s # ""
    [] OTHER -> TRUE

RECURSIVE JsToString(_)
RECURSIVE JoinToString(_, _)
\* Array.prototype.join(','): null and undefined elements give no text
JoinToString(es, i) ==
  IF i > Len(es) THEN ""
  ELSE (IF i > 1 THEN "," ELSE "")
       \o (IF es[i].k \in {"undefined", "null"} THEN "" ELSE JsToString(es[i]))
       \o JoinToString(es, i + 1)
\* the text `${v}` of a value that is not a symbol (on a symbol it throws)
JsToString(v) ==
  CASE v.k = "string"    -> v.s
    [] v.k = "number"    -> NumberToString(v)
    [] v.k = "boolean"   -> IF v.b THEN "true" ELSE "false"
    [] v.k = "null"      -> "null"
    [] v.k = "undefined" -> "undefined"
    [] v.k = "array"     -> JoinToString(v.e, 1)
    [] v.k = "object"    -> "[object Object]"
    [] v.k = "function"  -> "function " \o v.s \o "() {}"

\* a ?? b, which falls through on null and undefined only
JsNullish(a, b) == IF a.k \in {"undefined", "null"} THEN b ELSE a

\* a || b
JsOr(a, b) == IF Truthy(a) THEN a ELSE b

\* s === prefix
SameString(s, prefix) == s = prefix

\* String.prototype.startsWith
StartsWith(s, prefix) ==
  Len(s) >= Len(prefix) /\ SubSeq(s, 1, Len(prefix)) = prefix

\* a JSON string literal (the model's strings hold no character to escape)
Quote(s) == "\"" \o s \o "\""

\* values JSON.stringify has no text for
NoJSON(v) == v.k \in {"undefined", "function", "symbol"}

RECURSIVE JSONtext(_)
RECURSIVE JSONelems(_, _)
RECURSIVE JSONprops(_, _)
\* elements i.. of an array: a value without JSON text is written null
JSONelems(es, i) ==
  IF i > Len(es) THEN ""
  ELSE (IF i > 1 THEN "," ELSE "")
       \o (IF NoJSON(es[i]) THEN "null" ELSE JSONtext(es[i]))
       \o JSONelems(es, i + 1)
\* properties of an object: a property whose value has no JSON text is left out
JSONprops(ps, first) ==
  IF ps = <<>> THEN ""
  ELSE IF NoJSON(Head(ps)[2]) THEN JSONprops(Tail(ps), first)
  ELSE (IF first THEN "" ELSE ",")
       \o Quote(Head(ps)[1]) \o ":" \o JSONtext(Head(ps)[2])
       \o JSONprops(Tail(ps), FALSE)
JSONtext(v) ==
  CASE v.k = "null"    -> "null"
    [] v.k = "boolean" -> IF v.b THEN "true" ELSE "false"
    [] v.k = "number"  -> IF v.nan THEN "null" ELSE NumberToString(v)
    [] v.k = "string"  -> Quote(v.s)
    [] v.k = "array"   -> "[" \o JSONelems(v.e, 1) \o "]"
    [] v.k = "object"  -> "{" \o JSONprops(v.e, TRUE) \o "}"

\* JSON.stringify(v): a string, or undefined
JSONstringify(v) == IF NoJSON(v) THEN Undefined ELSE Str(JSONtext(v))

---------------------------------------------------------------------------
(* typeOf, src/request.js:40-65 *)

\* the classification as it would be without the test for null before typeof
actualTypeNoNull(value) ==
  IF ArrayIsArray(value) THEN "array"
  ELSE IF JsTypeof(value) = "number" /\ NumberToString(value) = "NaN" THEN "NaN"
  ELSE JsTypeof(value)

actualType(value) ==
  IF value = Null THEN "null"
  ELSE IF ArrayIsArray(value) THEN "array"
  ELSE IF JsTypeof(value) = "number" /\ NumberToString(value) = "NaN" THEN "NaN"
  ELSE JsTypeof(value)

typeOf(value) ==
  [isNaN             |-> actualType(value) = "NaN",
   isArray           |-> actualType(value) = "array",
   isSymbol          |-> actualType(value) = "symbol",
   isString          |-> actualType(value) = "string",
   isObject          |-> actualType(value) = "object",
   isNumber          |-> actualType(value) = "number",
   isBoolean         |-> actualType(value) = "boolean",
   isNotString       |-> actualType(value) # "string",
   isFunction        |-> actualType(value) = "function",
   isUndefinedOrNull |-> actualType(value) = "null" \/ actualType(value) = "undefined"]

---------------------------------------------------------------------------
(* The factory and the builder instance, src/request.js:80-99 *)

\* the baseURL closed over by requestFactory (it throws unless it is a string)
baseURL == "https://api.x.com"

\* HTTP_METHOD, src/request.js:22-27
HTTP_METHOD == [GET |-> "GET", PUT |-> "PUT", POST |-> "POST", DELETE |-> "DELETE"]

Insts == DOMAIN path

\* the object literal {} : no property
EmptyObject == [p \in {} |-> Undefined]

\* obj[key] of a header object: undefined when the property is absent
Prop(obj, key) == IF key \in DOMAIN obj THEN obj[key] ELSE Undefined

\* { ...obj, [key]: value }
Spread(obj, key, value) ==
  [p \in DOMAIN obj \cup {key} |-> IF p = key THEN value ELSE obj[p]]

\* the header objects something still refers to: each instance's __headers and
\* the argument of every header middleware that has not settled yet
Live(h, cs) ==
  {h[i] : i \in DOMAIN h}
    \cup UNION {{cs[i][n].harg : n \in {m \in DOMAIN cs[i] : cs[i][m].pc = "header"}}
                  : i \in DOMAIN cs}

\* a name for a new object: the least one no live object bears
Fresh(live) ==
  CHOOSE o \in 1..(Cardinality(live) + 1) :
    o \notin live /\ \A q \in 1..(o - 1) : q \in live

\* the heap without the objects nothing refers to any more
Collect(h, live) == [o \in live |-> h[o]]

\* the binder: a fresh instance bound to URI, with its own {} and middlewares
NewInstance(URI) ==
  [path |-> URI, headers |-> EmptyObject, body |-> Null,
   middlewares |-> [body |-> Null, header |-> Null]]

\* what the call `new InvalidRequestHeader(key, value)` ends in: its message
\* template converts both to strings, which throws TypeError on a symbol
InvalidRequestHeader(key, value) ==
  IF key.k = "symbol" \/ value.k = "symbol" THEN "TypeError"
  ELSE "InvalidRequestHeader"

\* `new InvalidBody(body)`: body is null or undefined, which the message
\* template converts to a string
InvalidBody(b) == "InvalidBody"

Returned(op, i, args) == [op |-> op, inst |-> i, args |-> args, threw |-> "none", ret |-> i]
Threw(op, i, args, e) == [op |-> op, inst |-> i, args |-> args, threw |-> e, ret |-> 0]

---------------------------------------------------------------------------
(* Fluent mutators, src/request.js:100-142 *)

\* the state change of a successful withHeader: __headers becomes a new object
\* were __headers assigned {[key]: value}, without the spread of the old one
SetHeaderOnly(i, key, value) ==
  LET keep   == Live([hdr EXCEPT ![i] = 0], calls) \ {0}
      o      == Fresh(keep)
      merged == Spread(EmptyObject, key.s, value)
  IN  /\ hdr' = [hdr EXCEPT ![i] = o]
      /\ heap' = [q \in keep \cup {o} |-> IF q = o THEN merged ELSE heap[q]]

SetHeader(i, key, value) ==
  LET keep   == Live([hdr EXCEPT ![i] = 0], calls) \ {0}
      o      == Fresh(keep)
      merged == Spread(heap[hdr[i]], key.s, value)
  IN  /\ hdr' = [hdr EXCEPT ![i] = o]
      /\ heap' = [q \in keep \cup {o} |-> IF q = o THEN merged ELSE heap[q]]

\* were the key alone validated
withHeaderKeyOnly(i, key, value) ==
  IF typeOf(key).isNotString
  THEN /\ last' = Threw("withHeader", i, <<key, value>>, InvalidRequestHeader(key, value))
       /\ UNCHANGED <<path, hdr, heap, body, mws, calls>>
  ELSE /\ SetHeader(i, key, value)
       /\ last' = Returned("withHeader", i, <<key, value>>)
       /\ UNCHANGED <<path, body, mws, calls>>

withHeader(i, key, value) ==
  IF typeOf(key).isNotString \/ typeOf(value).isNotString
  THEN /\ last' = Threw("withHeader", i, <<key, value>>, InvalidRequestHeader(key, value))
       /\ UNCHANGED <<path, hdr, heap, body, mws, calls>>
  ELSE /\ SetHeader(i, key, value)
       /\ last' = Returned("withHeader", i, <<key, value>>)
       /\ UNCHANGED <<path, body, mws, calls>>

\* withBody as it would be if it tested `!body`
withBodyFalsy(i, b) ==
  IF ~Truthy(b)
  THEN /\ last' = Threw("withBody", i, <<b>>, InvalidBody(b))
       /\ UNCHANGED <<path, hdr, heap, body, mws, calls>>
  ELSE /\ body' = [body EXCEPT ![i] = b]
       /\ last' = Returned("withBody", i, <<b>>)
       /\ UNCHANGED <<path, hdr, heap, mws, calls>>

withBody(i, b) ==
  IF typeOf(b).isUndefinedOrNull
  THEN /\ last' = Threw("withBody", i, <<b>>, InvalidBody(b))
       /\ UNCHANGED <<path, hdr, heap, body, mws, calls>>
  ELSE /\ body' = [body EXCEPT ![i] = b]
       /\ last' = Returned("withBody", i, <<b>>)
       /\ UNCHANGED <<path, hdr, heap, mws, calls>>

\* this.withHeader('Authorization', token)
withAuthorization(i, token) ==
  IF typeOf(Str("Authorization")).isNotString \/ typeOf(token).isNotString
  THEN /\ last' = Threw("withAuthorization", i, <<token>>,
                        InvalidRequestHeader(Str("Authorization"), token))
       /\ UNCHANGED <<path, hdr, heap, body, mws, calls>>
  ELSE /\ SetHeader(i, Str("Authorization"), token)
       /\ last' = Returned("withAuthorization", i, <<token>>)
       /\ UNCHANGED <<path, body, mws, calls>>

\* were the token handed on as it is, without the scheme before it
withBearerNoScheme(i, token) ==
  IF typeOf(token).isNotString
  THEN /\ last' = Threw("withBearerAuthorization", i, <<token>>,
                        InvalidRequestHeader(Str("Authorization"), token))
       /\ UNCHANGED <<path, hdr, heap, body, mws, calls>>
  ELSE /\ SetHeader(i, Str("Authorization"), token)
       /\ last' = Returned("withBearerAuthorization", i, <<token>>)
       /\ UNCHANGED <<path, body, mws, calls>>

\* const bearerToken = `Bearer ${token}`; this.withAuthorization(bearerToken).
\* The template throws TypeError on a symbol and makes a string of all else.
withBearerAuthorization(i, token) ==
  IF token.k = "symbol"
  THEN /\ last' = Threw("withBearerAuthorization", i, <<token>>, "TypeError")
       /\ UNCHANGED <<path, hdr, heap, body, mws, calls>>
  ELSE LET bearerToken == Str("Bearer " \o JsToString(token))
       IN  IF typeOf(Str("Authorization")).isNotString \/ typeOf(bearerToken).isNotString
           THEN /\ last' = Threw("withBearerAuthorization", i, <<token>>,
                                 InvalidRequestHeader(Str("Authorization"), bearerToken))
                /\ UNCHANGED <<path, hdr, heap, body, mws, calls>>
           ELSE /\ SetHeader(i, Str("Authorization"), bearerToken)
                /\ last' = Returned("withBearerAuthorization", i, <<token>>)
                /\ UNCHANGED <<path, body, mws, calls>>

withContentType(i, type) ==
  IF typeOf(Str("Content-Type")).isNotString \/ typeOf(type).isNotString
  THEN /\ last' = Threw("withContentType", i, <<type>>,
                        InvalidRequestHeader(Str("Content-Type"), type))
       /\ UNCHANGED <<path, hdr, heap, body, mws, calls>>
  ELSE /\ SetHeader(i, Str("Content-Type"), type)
       /\ last' = Returned("withContentType", i, <<type>>)
       /\ UNCHANGED <<path, body, mws, calls>>

\* were both slots assigned whatever the argument holds
withMiddlewareAssign(i, header, b) ==
  /\ mws' = [mws EXCEPT ![i] = [header |-> header, body |-> b]]
  /\ last' = Returned("withMiddleware", i, <<header, b>>)
  /\ UNCHANGED <<path, hdr, heap, body, calls>>

\* withMiddleware({header, body}): a slot the argument lacks is undefined
withMiddlewareMethod(i, header, b) ==
  /\ mws' = [mws EXCEPT ![i] =
               [header |-> IF typeOf(header).isFunction THEN header ELSE @.header,
                body   |-> IF typeOf(b).isFunction THEN b ELSE @.body]]
  /\ last' = Returned("withMiddleware", i, <<header, b>>)
  /\ UNCHANGED <<path, hdr, heap, body, calls>>

---------------------------------------------------------------------------
(* Parameter assembly, src/request.js:143-162 *)

\* this._parameters(method) on the instance's current state
_parameters(i, method) ==
  LET contentType    == Prop(heap[hdr[i]], "Content-Type")
      isBodyIncluded == ~typeOf(body[i]).isUndefinedOrNull /\ typeOf(contentType).isString
      requestPayload == [method |-> method, headers |-> heap[hdr[i]]]
  IN  IF isBodyIncluded
      THEN [method  |-> requestPayload.method,
            headers |-> requestPayload.headers,
            body    |-> IF StartsWith(contentType.s, "application/json")
                        THEN JSONstringify(body[i])
                        ELSE body[i]]
      ELSE requestPayload

---------------------------------------------------------------------------
(* Dispatch: _call and the async function withMiddleware,                  *)
(* src/request.js:173-179 and 218-228                                      *)

\* the URL _call builds from the path it is given
Url(p) == IF typeOf(p).isString THEN baseURL \o p.s ELSE baseURL

\* the states of the result of a middleware call, and of the dispatch's own
NotCalled   == [state |-> "none", reason |-> "none"]
Awaited     == [state |-> "pending", reason |-> "none"]
Resolved    == [state |-> "resolved", reason |-> "none"]
Rejected(e) == [state |-> "rejected", reason |-> e]

\* cb() as it would be without `return`: the dispatcher's promise is fulfilled
\* with undefined as soon as the transport has been called
ContinuationNoReturn(c) ==
  [c EXCEPT !.pc = "fetched",
            !.fetch = Append(@, <<Str(c.url), Fn("_parameters")>>),
            !.tres = [state |-> "pending", reason |-> "none"],
            !.promise = [state |-> "resolved", reason |-> "none"]]

\* cb(): fetch(url, this._parameters). The second argument is the instance's
\* _parameters property, a function, which the code does not call. tres is the
\* state of the promise fetch returns; `return cb()` resolves the dispatcher's
\* promise to it, so that it settles as the transport's does.
Continuation(c) ==
  [c EXCEPT !.pc = "fetched",
            !.fetch = Append(@, <<Str(c.url), Fn("_parameters")>>),
            !.tres = Awaited,
            !.promise = [state |-> "transport", reason |-> "none"]]

\* the same from a copy of the slot and the body taken when the dispatcher was called
FromBodySnapshot(i, c) ==
  IF Truthy(c.at.body)
  THEN [c EXCEPT !.pc = "body", !.bres = Awaited,
                 !.blog = Append(@, <<c.at.body, c.at.bodyval>>)]
  ELSE Continuation(c)

\* withMiddleware from `if (middlewares.body)` on: the slot and ctx.__body
\* are read when this point is reached
FromBody(i, c) ==
  IF Truthy(mws[i].body)
  THEN [c EXCEPT !.pc = "body", !.bres = Awaited,
                 !.blog = Append(@, <<mws[i].body, body[i]>>)]
  ELSE Continuation(c)

\* withMiddleware as it would be if it called the header middleware twice
FromHeaderTwice(i, c, h, obj) ==
  IF Truthy(mws[i].header)
  THEN [c EXCEPT !.pc = "header", !.harg = h, !.hres = Awaited,
                 !.hlog = @ \o <<<<mws[i].header, obj>>, <<mws[i].header, obj>>>>]
  ELSE FromBody(i, c)

\* withMiddleware as it would be had it not awaited the header middleware
FromHeaderNoAwait(i, c, h, obj) ==
  IF Truthy(mws[i].header)
  THEN FromBody(i, [c EXCEPT !.harg = h, !.hres = Awaited,
                             !.hlog = Append(@, <<mws[i].header, obj>>)])
  ELSE FromBody(i, c)

\* withMiddleware as it would be if it awaited before the header slot is
\* looked at, also when no middleware is registered
FromHeaderAlwaysAwait(i, c, h, obj) ==
  IF Truthy(mws[i].header)
  THEN [c EXCEPT !.pc = "header", !.harg = h, !.hres = Awaited,
                 !.hlog = Append(@, <<mws[i].header, obj>>)]
  ELSE [c EXCEPT !.pc = "header", !.harg = h, !.hres = Awaited]

\* withMiddleware from its start to its first await, or to the end without one;
\* h is the object ctx.__headers refers to and obj that object's properties
FromHeader(i, c, h, obj) ==
  IF Truthy(mws[i].header)
  THEN [c EXCEPT !.pc = "header", !.harg = h, !.hres = Awaited,
                 !.hlog = Append(@, <<mws[i].header, obj>>)]
  ELSE FromBody(i, c)

\* a dispatch that has run nothing yet. hlog, blog and fetch list the calls made
\* of the header middleware, the body middleware and the transport, each with
\* its arguments; hres and bres are the states of the middlewares' results and
\* promise that of the future the dispatcher returns (once the transport is
\* called, the transport's); hwrites holds what the header middleware wrote to
\* the object it was given; at is the instance when the dispatcher was called.
NewCall(i, op, arg, method, p) ==
  [op |-> op, arg |-> arg, method |-> method, url |-> Url(p), pc |-> "start",
   harg |-> 0, hlog |-> <<>>, hres |-> NotCalled, blog |-> <<>>, bres |-> NotCalled,
   fetch |-> <<>>, tres |-> NotCalled, promise |-> Awaited, hwrites |-> EmptyObject,
   at |-> [header |-> mws[i].header, body |-> mws[i].body, bodyval |-> body[i]]]

\* this._call(method, p), called by dispatcher op with the explicit argument arg,
\* when __headers refers to object h with the properties obj
_call(i, op, arg, method, p, h, obj) ==
  /\ calls' = [calls EXCEPT ![i] =
                 Append(@, FromHeader(i, NewCall(i, op, arg, method, p), h, obj))]
  /\ last' = [op |-> op, inst |-> i, args |-> <<arg>>, threw |-> "none", ret |-> 0]

get(i, arg) ==
  /\ _call(i, "get", arg, HTTP_METHOD.GET, JsOr(arg, path[i]), hdr[i], heap[hdr[i]])
  /\ UNCHANGED <<path, hdr, heap, body, mws>>

post(i, arg) ==
  /\ _call(i, "post", arg, HTTP_METHOD.POST, JsOr(arg, path[i]), hdr[i], heap[hdr[i]])
  /\ UNCHANGED <<path, hdr, heap, body, mws>>

put(i, arg) ==
  /\ _call(i, "put", arg, HTTP_METHOD.PUT, JsOr(arg, path[i]), hdr[i], heap[hdr[i]])
  /\ UNCHANGED <<path, hdr, heap, body, mws>>

\* the instance has no property _path: this._path is undefined
delete(i, arg) ==
  /\ _call(i, "delete", arg, HTTP_METHOD.DELETE, JsOr(arg, Undefined), hdr[i], heap[hdr[i]])
  /\ UNCHANGED <<path, hdr, heap, body, mws>>

\* this.withContentType('application/json').post(path || this.__path)
postJSON(i, arg) ==
  /\ SetHeader(i, Str("Content-Type"), Str("application/json"))
  /\ _call(i, "postJSON", arg, HTTP_METHOD.POST, JsOr(JsOr(arg, path[i]), path[i]),
           hdr'[i], heap'[hdr'[i]])
  /\ UNCHANGED <<path, body, mws>>

\* this.withContentType('application/json').put(path || this.__path)
putJSON(i, arg) ==
  /\ SetHeader(i, Str("Content-Type"), Str("application/json"))
  /\ _call(i, "putJSON", arg, HTTP_METHOD.PUT, JsOr(JsOr(arg, path[i]), path[i]),
           hdr'[i], heap'[hdr'[i]])
  /\ UNCHANGED <<path, body, mws>>

---------------------------------------------------------------------------
(* Resumptions of withMiddleware, and the middlewares' own doing *)

Pending(i, n, pc) == n \in DOMAIN calls[i] /\ calls[i][n].pc = pc

\* the calls cs, and the heap without the header objects whose last reference
\* was a header middleware that has settled
Settle(cs) ==
  /\ calls' = cs
  /\ heap' = Collect(heap, Live(hdr, cs))

\* `await middlewares.header(ctx.__headers)` resolved
HeaderResolved(i, n) ==
  /\ Pending(i, n, "header")
  /\ Settle([calls EXCEPT ![i][n] = FromBody(i, [@ EXCEPT !.harg = 0, !.hres = Resolved])])
  /\ UNCHANGED <<path, hdr, body, mws, last>>

\* the rejection as it would be had withMiddleware caught the error and gone on
HeaderRejectedCaught(i, n, e) ==
  /\ Pending(i, n, "header")
  /\ Settle([calls EXCEPT ![i][n] =
               FromBody(i, [@ EXCEPT !.harg = 0, !.hres = Rejected(e)])])
  /\ UNCHANGED <<path, hdr, body, mws, last>>

\* the header middleware threw, or its result rejected, with error e
HeaderRejected(i, n, e) ==
  /\ Pending(i, n, "header")
  /\ Settle([calls EXCEPT ![i][n] =
               [@ EXCEPT !.pc = "rejected", !.harg = 0, !.hres = Rejected(e),
                         !.promise = Rejected(e)]])
  /\ UNCHANGED <<path, hdr, body, mws, last>>

\* `await middlewares.body(ctx.__body)` resolved
BodyResolved(i, n) ==
  /\ Pending(i, n, "body")
  /\ calls' = [calls EXCEPT ![i][n] = Continuation([@ EXCEPT !.bres = Resolved])]
  /\ UNCHANGED <<path, hdr, heap, body, mws, last>>

\* the body middleware threw, or its result rejected, with error e
BodyRejected(i, n, e) ==
  /\ Pending(i, n, "body")
  /\ calls' = [calls EXCEPT ![i][n] =
                 [@ EXCEPT !.pc = "rejected", !.bres = Rejected(e),
                           !.promise = Rejected(e)]]
  /\ UNCHANGED <<path, hdr, heap, body, mws, last>>

\* the write as it would be had the middleware been given a copy of __headers
HeaderWritesToCopy(i, n, key, value) ==
  /\ Pending(i, n, "header")
  /\ calls' = [calls EXCEPT ![i][n].hwrites = Spread(@, key, value)]
  /\ UNCHANGED <<path, hdr, heap, body, mws, last>>

\* a pending header middleware sets a property of the object it was given
HeaderWrites(i, n, key, value) ==
  /\ Pending(i, n, "header")
  /\ heap' = [heap EXCEPT ![calls[i][n].harg] = Spread(@, key, value)]
  /\ calls' = [calls EXCEPT ![i][n].hwrites = Spread(@, key, value)]
  /\ UNCHANGED <<path, hdr, body, mws, last>>

\* the promise fetch returned settles: fulfilled with a response or rejected
TransportSettles(i, n, outcome) ==
  /\ Pending(i, n, "fetched")
  /\ calls[i][n].tres.state = "pending"
  /\ calls' = [calls EXCEPT ![i][n] =
                 [@ EXCEPT !.tres = outcome,
                           !.promise = IF @.state = "transport" THEN outcome ELSE @]]
  /\ UNCHANGED <<path, hdr, heap, body, mws, last>>

---------------------------------------------------------------------------
(* Initial states: the instances the binder returned, src/request.js:89-99 *)

\* were the binder to hand every instance one and the same headers object
InitWithShared(ids, URIs) ==
  /\ path \in [ids -> URIs]
  /\ hdr = [i \in ids |-> 1]
  /\ heap = [o \in {1} |-> NewInstance(Undefined).headers]
  /\ body = [i \in ids |-> NewInstance(Undefined).body]
  /\ mws = [i \in ids |-> NewInstance(Undefined).middlewares]
  /\ calls = [i \in ids |-> <<>>]
  /\ last = [op |-> "requestFactory", inst |-> 0, args |-> <<>>, threw |-> "none", ret |-> 0]

InitWith(ids, URIs) ==
  /\ path \in [ids -> URIs]
  /\ hdr = [i \in ids |-> i]
  /\ heap = [o \in ids |-> NewInstance(Undefined).headers]
  /\ body = [i \in ids |-> NewInstance(Undefined).body]
  /\ mws = [i \in ids |-> NewInstance(Undefined).middlewares]
  /\ calls = [i \in ids |-> <<>>]
  /\ last = [op |-> "requestFactory", inst |-> 0, args |-> <<>>, threw |-> "none", ret |-> 0]

---------------------------------------------------------------------------
(* Inputs *)

json == Str("application/json")

\* a middleware's error
Errors == {"boom"}

\* what a header middleware writes: a computed signature header
Signatures == {<<"X-Sig", Str("m")>>}

\* Spec: one instance, its mutators called with values of every kind
URIs == {Str("/users")}

text == Str("text/plain")

NonStrings ==
  {Null, Undefined, Num(0), Num(7), NaN, Bool(FALSE), Bool(TRUE), Arr(<<>>),
   Arr(<<Str("a")>>), Obj(<<>>), Obj(<<<<"a", Num(1)>>>>), Fn("f"), Sym("s")}

HeaderPairs ==
  {<<Str("Content-Type"), json>>,
   <<Str("Content-Type"), Str("application/json; charset=utf-8")>>,
   <<Str("Content-Type"), text>>,
   <<Str("X-Sig"), Str("a")>>, <<Str("x-sig"), Str("")>>}
    \cup {<<v, Str("a")>> : v \in NonStrings}
    \cup {<<Str("Content-Type"), v>> : v \in NonStrings}
    \cup {<<Null, Undefined>>}

Bodies ==
  {Null, Undefined, Num(0), Str(""), Bool(FALSE), Arr(<<>>), Obj(<<>>),
   Obj(<<<<"a", Num(1)>>>>), Fn("f")}

Slots == {Undefined, Str("not-a-fn"), Fn("m1"), Fn("m2")}

Init == InitWith({1}, URIs)

Next ==
  \/ \E i \in Insts, kv \in HeaderPairs : withHeader(i, kv[1], kv[2])
  \/ \E i \in Insts, b \in Bodies : withBody(i, b)
  \/ \E i \in Insts, type \in {json, text, Num(1)} : withContentType(i, type)
  \/ \E i \in Insts, header \in Slots, b \in Slots : withMiddlewareMethod(i, header, b)

Spec == Init /\ [][Next]_vars

---------------------------------------------------------------------------
(* SpecCall: the life of an instance as the design has it. It is bound to a *)
(* path or to none, the mutators build the request, and then dispatchers,   *)
(* any of them with any explicit path, send it.                             *)

MaxCall == 1

CallURIs == {Str("/users"), Undefined}

PathArgs == {Undefined, Str("/x"), Str(""), Num(5)}

InitCall == InitWith({1}, CallURIs)

\* the client has not dispatched yet
Building(i) == calls[i] = <<>>

NextCall ==
  \/ \E i \in Insts : Building(i) /\ withContentType(i, json)
  \/ \E i \in Insts : Building(i) /\ withBody(i, Obj(<<<<"a", Num(1)>>>>))
  \/ \E i \in Insts : Building(i) /\ withMiddlewareMethod(i, Fn("m1"), Undefined)
  \/ \E i \in Insts : Building(i) /\ withMiddlewareMethod(i, Undefined, Fn("m2"))
  \/ \E i \in Insts, arg \in PathArgs : Len(calls[i]) < MaxCall /\ get(i, arg)
  \/ \E i \in Insts, arg \in PathArgs : Len(calls[i]) < MaxCall /\ post(i, arg)
  \/ \E i \in Insts, arg \in PathArgs : Len(calls[i]) < MaxCall /\ put(i, arg)
  \/ \E i \in Insts, arg \in PathArgs : Len(calls[i]) < MaxCall /\ delete(i, arg)
  \/ \E i \in Insts, arg \in PathArgs : Len(calls[i]) < MaxCall /\ postJSON(i, arg)
  \/ \E i \in Insts, arg \in PathArgs : Len(calls[i]) < MaxCall /\ putJSON(i, arg)
  \/ \E i \in Insts, n \in 1..MaxCall : HeaderResolved(i, n)
  \/ \E i \in Insts, n \in 1..MaxCall : BodyResolved(i, n)
  \/ \E i \in Insts, n \in 1..MaxCall, e \in Errors : HeaderRejected(i, n, e)
  \/ \E i \in Insts, n \in 1..MaxCall, e \in Errors : BodyRejected(i, n, e)
  \/ \E i \in Insts, n \in 1..MaxCall, w \in Signatures : HeaderWrites(i, n, w[1], w[2])

SpecCall == InitCall /\ [][NextCall]_vars

---------------------------------------------------------------------------
(* SpecAsync: one instance and dispatches in flight together, with mutators  *)
(* called between the steps of their middlewares                             *)

MaxAsync == 1

InitAsync == InitWith({1}, URIs)

NextAsync ==
  \/ \E i \in Insts : withHeader(i, Str("X-Sig"), Str("a"))
  \/ \E i \in Insts, b \in {Num(0), Obj(<<<<"a", Num(1)>>>>)} : withBody(i, b)
  \/ \E i \in Insts : withMiddlewareMethod(i, Fn("m1"), Undefined)
  \/ \E i \in Insts : withMiddlewareMethod(i, Undefined, Fn("m2"))
  \/ \E i \in Insts : Len(calls[i]) < MaxAsync /\ get(i, Undefined)
  \/ \E i \in Insts, n \in 1..MaxAsync : HeaderResolved(i, n)
  \/ \E i \in Insts, n \in 1..MaxAsync : BodyResolved(i, n)
  \/ \E i \in Insts, n \in 1..MaxAsync, e \in Errors : HeaderRejected(i, n, e)
  \/ \E i \in Insts, n \in 1..MaxAsync, e \in Errors : BodyRejected(i, n, e)
  \/ \E i \in Insts, n \in 1..MaxAsync, w \in Signatures : HeaderWrites(i, n, w[1], w[2])

SpecAsync == InitAsync /\ [][NextAsync]_vars

---------------------------------------------------------------------------
(* Properties *)

AllCalls == UNION {{calls[i][n] : n \in DOMAIN calls[i]} : i \in Insts}

IsFn(v) == v.k = "function"

\* the steps of a dispatch that are in progress
InProgress(c) ==
  {s \in {"header", "body", "transport"} :
     \/ s = "header" /\ c.hres.state = "pending"
     \/ s = "body" /\ c.bres.state = "pending"
     \/ s = "transport" /\ c.promise.state = "transport"}

\* C1: a dispatch issued with both middlewares registered calls the header
\* middleware at once and once, the body middleware only when the header
\* middleware's result has resolved, the transport only when the body
\* middleware's result has resolved, and has at most one of the three in progress.
C1_Sequential ==
  \A c \in AllCalls :
    (IsFn(c.at.header) /\ IsFn(c.at.body)) =>
      /\ Len(c.hlog) = 1 /\ Len(c.blog) <= 1 /\ Len(c.fetch) <= 1
      /\ c.blog # <<>> => c.hres.state = "resolved"
      /\ c.fetch # <<>> => c.blog # <<>> /\ c.bres.state = "resolved"
      /\ Cardinality(InProgress(c)) <= 1

C1_Witness ==
  \E c \in AllCalls : IsFn(c.at.header) /\ IsFn(c.at.body) /\ c.fetch # <<>>

\* C3: when a middleware fails, the future the dispatcher returned is rejected
\* with the middleware's error and the transport is never called; after a failed
\* header middleware the body middleware is never called either.
C3_Abort ==
  \A c \in AllCalls :
    /\ c.hres.state = "rejected" =>
         c.promise = [state |-> "rejected", reason |-> c.hres.reason]
           /\ c.blog = <<>> /\ c.fetch = <<>>
    /\ c.bres.state = "rejected" =>
         c.promise = [state |-> "rejected", reason |-> c.bres.reason] /\ c.fetch = <<>>

C3_Witness ==
  \E c \in AllCalls : c.hres.state = "rejected" /\ IsFn(c.at.body)

\* C4: a dispatch issued while a header middleware is registered calls it once,
\* with the object the instance's __headers refers to as the dispatcher is
\* called, and calls the transport only when the middleware's result has resolved.
C4_State ==
  \A c \in AllCalls :
    IsFn(c.at.header) =>
      /\ Len(c.hlog) = 1 /\ c.hlog[1][1] = c.at.header
      /\ c.fetch # <<>> => c.hres.state = "resolved"

C4_Step ==
  \A i \in Insts :
    (Len(calls'[i]) > Len(calls[i]) /\ IsFn(mws[i].header)) =>
      LET c == calls'[i][Len(calls'[i])]
      IN  c.harg = hdr'[i] /\ c.hlog = <<<<mws[i].header, heap'[hdr'[i]]>>>>

\* C4: the header middleware is called once per dispatch, with the instance's
\* header object of that moment, and the transport waits for its result.
C4_HeaderOnce == []C4_State /\ [][C4_Step]_vars

C4_Witness ==
  \E c \in AllCalls :
    /\ c.op = "postJSON" /\ IsFn(c.at.header) /\ c.fetch # <<>>
    /\ c.hlog[1][2] = [p \in {"Content-Type"} |-> json]

\* C5 as claimed: the body middleware a dispatch runs, and the body it is given,
\* are the instance's when the dispatcher was called.
C5_Snapshot ==
  \A c \in AllCalls :
    /\ c.blog # <<>> => c.blog[1] = <<c.at.body, c.at.bodyval>>
    /\ (c.fetch # <<>> /\ IsFn(c.at.body)) => c.blog # <<>>
    /\ (c.fetch # <<>> /\ ~IsFn(c.at.body)) => c.blog = <<>>

\* C5 as amended: a mutator never changes a dispatch in flight by itself, and the
\* header middleware that runs is the one registered when the dispatcher was
\* called; but the body-middleware slot and the body are read when the header
\* middleware's result resolves (when the dispatcher is called, if no header
\* middleware is registered), so a withMiddleware or withBody called before
\* that decides which body middleware runs and which body it is given.
C5_State ==
  \A c \in AllCalls :
    /\ IsFn(c.at.header) => Len(c.hlog) = 1 /\ c.hlog[1][1] = c.at.header
    /\ ~IsFn(c.at.header) =>
         /\ c.hlog = <<>>
         /\ c.blog = IF IsFn(c.at.body) THEN <<<<c.at.body, c.at.bodyval>>>> ELSE <<>>
    /\ c.fetch # <<>> => c.fetch[1][1] = Str(c.url)

C5_Step ==
  \A i \in Insts : \A n \in DOMAIN calls[i] :
    LET c == calls[i][n]
        d == calls'[i][n]
    IN  /\ d # c => c.hres.state = "pending" \/ c.bres.state = "pending"
        /\ (c.hres.state = "pending" /\ d.hres.state = "resolved") =>
             d.blog = IF IsFn(mws[i].body) THEN <<<<mws[i].body, body[i]>>>> ELSE <<>>
        /\ c.blog # <<>> => d.blog = c.blog

\* C5, amended: only the settling of its own middleware changes a dispatch in
\* flight, and the body slot and the body are read when that point is reached.
C5_ReadWhenReached == []C5_State /\ [][C5_Step]_vars

C5_Witness ==
  \E c \in AllCalls :
    IsFn(c.at.header) /\ c.blog # <<>> /\ c.blog[1] # <<c.at.body, c.at.bodyval>>

\* C2 as claimed: the transport is called with the URL and with the record
\* _parameters assembles for the dispatcher's method.
C2_TransportParameters ==
  \A i \in Insts : \A n \in DOMAIN calls[i] :
    LET c == calls[i][n]
    IN  c.fetch # <<>> => c.fetch[1] = <<Str(c.url), _parameters(i, c.method)>>

\* the text of a string or a number in a template literal
TemplateText(v) == IF v.k = "string" THEN v.s ELSE NumberToString(v)

\* C9 as claimed: get, post and put call the transport with baseURL followed by
\* the explicit path when it is given and not falsy, else by the bound path when
\* that is a string, else with baseURL alone.
C9_UrlAsClaimed ==
  \A i \in Insts : \A n \in DOMAIN calls[i] :
    LET c == calls[i][n]
    IN  (c.op \in {"get", "post", "put"} /\ c.fetch # <<>>) =>
          c.fetch[1][1] =
            Str(IF Truthy(c.arg) THEN baseURL \o TemplateText(c.arg)
                ELSE IF path[i].k = "string" THEN baseURL \o path[i].s
                ELSE baseURL)

\* C9 as amended: the explicit path, when given and not falsy, is appended to
\* baseURL only if it is a string; if it is not a string the URL is baseURL
\* alone, and the bound path is not used.
C9_Url ==
  \A i \in Insts : \A n \in DOMAIN calls[i] :
    LET c == calls[i][n]
    IN  (c.op \in {"get", "post", "put"} /\ c.fetch # <<>>) =>
          c.fetch[1][1] =
            Str(IF Truthy(c.arg)
                THEN (IF c.arg.k = "string" THEN baseURL \o c.arg.s ELSE baseURL)
                ELSE IF path[i].k = "string" THEN baseURL \o path[i].s
                ELSE baseURL)

C9_Witness ==
  \E i \in Insts : \E n \in DOMAIN calls[i] :
    /\ calls[i][n].op = "get" /\ calls[i][n].arg = Undefined
    /\ path[i] = Str("/users")
    /\ calls[i][n].fetch = <<<<Str("https://api.x.com/users"), Fn("_parameters")>>>>

\* C10 as claimed: delete without an explicit path, or with a falsy one, on an
\* instance bound to a string path calls the transport with baseURL and that path.
C10_DeleteDefaultPath ==
  \A i \in Insts : \A n \in DOMAIN calls[i] :
    LET c == calls[i][n]
    IN  (c.op = "delete" /\ c.fetch # <<>> /\ ~Truthy(c.arg) /\ path[i].k = "string") =>
          c.fetch[1][1] = Str(baseURL \o path[i].s)

\* C6 as claimed: withHeader with a key or a value that is not a string throws
\* InvalidRequestHeader and leaves headers, body and middlewares as they were.
C6_RejectsNonStrings ==
  [][(/\ last' # last
      /\ last'.op = "withHeader"
      /\ last'.args[1].k # "string" \/ last'.args[2].k # "string") =>
       /\ last'.threw = "InvalidRequestHeader"
       /\ UNCHANGED <<hdr, heap, body, mws>>]_vars

\* C7: withBody throws InvalidBody and leaves the body as it was when given null
\* or undefined; given anything else it returns and the body is that value.
C7_Body ==
  [][(last' # last /\ last'.op = "withBody") =>
       LET b == last'.args[1]
       IN  IF b.k \in {"null", "undefined"}
           THEN last'.threw = "InvalidBody" /\ body' = body
           ELSE last'.threw = "none" /\ body' = [body EXCEPT ![last'.inst] = b]]_vars

C7_Witness ==
  last.op = "withBody" /\ last.threw = "none" /\ body[last.inst] = Bool(FALSE)

Methods == {"GET", "POST", "PUT", "DELETE"}

\* the JSON text of the bodies the mutators are called with
TextOfBody(b) ==
  CASE b = Num(0) -> Str("0")
    [] b = Str("") -> Str("\"\"")
    [] b = Bool(FALSE) -> Str("false")
    [] b = Arr(<<>>) -> Str("[]")
    [] b = Obj(<<>>) -> Str("{}")
    [] b = Obj(<<<<"a", Num(1)>>>>) -> Str("{\"a\":1}")
    [] b = Fn("f") -> Undefined

\* C8: the record _parameters returns has the method and the headers; it has a
\* body key exactly when the body is neither null nor undefined and the headers
\* hold a string under Content-Type; that body is the body's JSON text when the
\* content type begins with application/json and the body itself otherwise.
C8_Parameters ==
  \A i \in Insts : \A m \in Methods :
    LET p   == _parameters(i, m)
        h   == heap[hdr[i]]
        has == /\ body[i].k \notin {"null", "undefined"}
               /\ "Content-Type" \in DOMAIN h
               /\ h["Content-Type"].k = "string"
    IN  /\ p.method = m /\ p.headers = h
        /\ "body" \in DOMAIN p <=> has
        /\ has =>
             p.body = IF h["Content-Type"].s \in
                           {"application/json", "application/json; charset=utf-8"}
                      THEN TextOfBody(body[i])
                      ELSE body[i]

C8_Witness ==
  \E i \in Insts :
    /\ body[i] = Obj(<<<<"a", Num(1)>>>>)
    /\ heap[hdr[i]] = [p \in {"Content-Type"} |-> Str("application/json; charset=utf-8")]
    /\ _parameters(i, "POST").body = Str("{\"a\":1}")

\* a dispatch step of instance i: its call list grows by the call returned
Dispatched(i) == Len(calls'[i]) = Len(calls[i]) + 1

NewestCall(i) == calls'[i][Len(calls'[i])]

\* C11, the header and the method: postJSON and putJSON leave Content-Type at
\* 'application/json' whatever it was, and dispatch as POST and PUT.
C11_Step ==
  \A i \in Insts :
    (Dispatched(i) /\ NewestCall(i).op \in {"postJSON", "putJSON"}) =>
      /\ "Content-Type" \in DOMAIN heap'[hdr'[i]]
      /\ heap'[hdr'[i]]["Content-Type"] = Str("application/json")
      /\ NewestCall(i).method = (IF NewestCall(i).op = "postJSON" THEN "POST" ELSE "PUT")

\* C11, the body: the parameters the transport of a postJSON or putJSON
\* dispatch is called with hold the JSON text of a body set before the call.
C11_BodySent ==
  \A c \in AllCalls :
    (c.op \in {"postJSON", "putJSON"} /\ c.fetch # <<>> /\ c.at.bodyval.k # "null") =>
      /\ "body" \in DOMAIN c.fetch[1][2]
      /\ c.fetch[1][2].body = TextOfBody(c.at.bodyval)

\* C11 as claimed: postJSON and putJSON set Content-Type to 'application/json'
\* before dispatching, then behave as post and put, so that a body set before
\* the call is in the parameters of the dispatch as its JSON text.
C11_JSONDispatch == []C11_BodySent /\ [][C11_Step]_vars

----------------------------------------------------------------------------
(* SpecPair: two instances the same binder returned, each built, dispatched   *)
(* and resumed in any interleaving with the other                             *)

\* dispatches of the two instances together
MaxPair == 2

PairURIs == {Str("/users"), Str("/orders")}

InitPair == InitWith({1, 2}, PairURIs) /\ path[1] = Str("/users")

NextPair ==
  \/ \E i \in Insts : Building(i) /\ withHeader(i, Str("X-Sig"), Str("a"))
  \/ \E i \in Insts : Building(i) /\ withBody(i, Obj(<<<<"a", Num(1)>>>>))
  \/ \E i \in Insts : Building(i) /\ withMiddlewareMethod(i, Fn("m1"), Undefined)
  \/ \E i \in Insts : Len(calls[1]) + Len(calls[2]) < MaxPair /\ get(i, Undefined)
  \/ \E i \in Insts, n \in 1..MaxPair : HeaderResolved(i, n)
  \/ \E i \in Insts, n \in 1..MaxPair, w \in Signatures : HeaderWrites(i, n, w[1], w[2])

SpecPair == InitPair /\ [][NextPair]_vars

\* the instance a step is a call on, or a step of a dispatch of
Acting(i) == (last' # last /\ last'.inst = i) \/ calls'[i] # calls[i]

C12_Step ==
  \A i \in Insts : Acting(i) =>
    \A j \in Insts \ {i} :
      /\ heap'[hdr'[j]] = heap[hdr[j]]
      /\ body'[j] = body[j]
      /\ mws'[j] = mws[j]
      /\ calls'[j] = calls[j]

C12_Own == \A i \in Insts : \A j \in Insts \ {i} : hdr[i] # hdr[j]

\* C12: two instances of one binder share no header, body or middleware state:
\* a mutator call, a dispatch or a middleware step of one leaves the other's
\* headers, body and middleware slots as they were.
C12_Separate == []C12_Own /\ [][C12_Step]_vars

\* instance 1 built, dispatched and written to by its middleware; 2 untouched
C12_Witness ==
  /\ heap[hdr[1]] = [p \in {"X-Sig"} |-> Str("m")]
  /\ body[1] = Obj(<<<<"a", Num(1)>>>>)
  /\ mws[1].header = Fn("m1")
  /\ calls[1] # <<>> /\ calls[1][1].fetch # <<>>
  /\ heap[hdr[2]] = EmptyObject /\ body[2] = Null /\ mws[2].header = Null
  /\ path[2] = path[1]

\* C13: withMiddleware({header, body}) never throws; each slot takes the value
\* supplied when that is a function and keeps its value (a function or null)
\* when it is anything else, undefined included; headers and body stay.
C13_Step ==
  \A i \in Insts :
    (last' # last /\ last'.op = "withMiddleware" /\ last'.inst = i) =>
      /\ last'.threw = "none"
      /\ mws'[i].header = (IF IsFn(last'.args[1]) THEN last'.args[1] ELSE mws[i].header)
      /\ mws'[i].body = (IF IsFn(last'.args[2]) THEN last'.args[2] ELSE mws[i].body)
      /\ heap'[hdr'[i]] = heap[hdr[i]]
      /\ body'[i] = body[i]

C13_Slots == [][C13_Step]_vars

\* the header slot kept its function through a call that set the body slot only
C13_Witness ==
  /\ last.op = "withMiddleware"
  /\ last.args = <<Undefined, Fn("m2")>>
  /\ mws[1] = [header |-> Fn("m1"), body |-> Fn("m2")]
  /\ heap[hdr[1]] # EmptyObject

----------------------------------------------------------------------------
(* SpecAuth: one instance and the mutators that set the Authorization header *)

Tokens == {Str("xyz"), Str(""), Null, Num(7), Arr(<<Str("a")>>), Sym("s")}

InitAuth == InitWith({1}, URIs)

NextAuth ==
  \/ \E i \in Insts, value \in {Str("Bearer xyz"), Str("Basic q")} :
       withHeader(i, Str("Authorization"), value)
  \/ \E i \in Insts : withHeader(i, Str("X-Sig"), Str("a"))
  \/ \E i \in Insts, token \in {Str("xyz"), Num(7)} : withAuthorization(i, token)
  \/ \E i \in Insts, token \in Tokens : withBearerAuthorization(i, token)
  \/ \E i \in Insts : withBody(i, Obj(<<<<"a", Num(1)>>>>))
  \/ \E i \in Insts : withMiddlewareMethod(i, Fn("m1"), Undefined)

SpecAuth == InitAuth /\ [][NextAuth]_vars

\* C14: for a string token t, withBearerAuthorization(t) does what
\* withHeader('Authorization', 'Bearer ' + t) does: it returns the instance with
\* Authorization at 'Bearer ' followed by t, and with every other header, the
\* body and the middleware slots as they were.
C14_Step ==
  \A i \in Insts :
    (/\ last' # last
     /\ last'.op = "withBearerAuthorization"
     /\ last'.inst = i
     /\ last'.args[1].k = "string") =>
      /\ last'.threw = "none" /\ last'.ret = i
      /\ DOMAIN heap'[hdr'[i]] = DOMAIN heap[hdr[i]] \cup {"Authorization"}
      /\ heap'[hdr'[i]]["Authorization"] = Str("Bearer " \o last'.args[1].s)
      /\ \A p \in DOMAIN heap[hdr[i]] \ {"Authorization"} : heap'[hdr'[i]][p] = heap[hdr[i]][p]
      /\ body'[i] = body[i]
      /\ mws'[i] = mws[i]

C14_Bearer == [][C14_Step]_vars

C14_Witness ==
  /\ last.op = "withBearerAuthorization"
  /\ last.args = <<Str("xyz")>>
  /\ heap[hdr[1]] = [p \in {"Authorization", "X-Sig"} |->
                       IF p = "X-Sig" THEN Str("a") ELSE Str("Bearer xyz")]
  /\ body[1] # Null

\* the step in which the transport of call n of instance i is called
TransportCalled(i, n) ==
  /\ n \in DOMAIN calls[i] /\ n \in DOMAIN calls'[i]
  /\ calls[i][n].fetch = <<>> /\ calls'[i][n].fetch # <<>>

\* the header mapping h holds every key with the value last written to it
HoldsWrites(h, writes) ==
  \A p \in DOMAIN writes : p \in DOMAIN h /\ h[p] = writes[p]

\* C15 as claimed: when the transport is called, the instance's headers (those
\* this._parameters reads) hold every key and value the header middleware wrote
\* to the mapping it was given, whatever was called on the instance meanwhile.
C15_Step ==
  \A i \in Insts : \A n \in DOMAIN calls[i] :
    TransportCalled(i, n) => HoldsWrites(heap'[hdr'[i]], calls[i][n].hwrites)

C15_Live ==
  \A i \in Insts : \A n \in DOMAIN calls[i] :
    (calls[i][n].pc = "header" /\ calls[i][n].harg = hdr[i]) =>
      HoldsWrites(heap[hdr[i]], calls[i][n].hwrites)

\* C15, the continuation: the step that resolves the header middleware leaves
\* the instance's headers as they are, and calls the transport in that step
\* when no body middleware is registered.
C15_Resolve ==
  \A i \in Insts : \A n \in DOMAIN calls[i] :
    (calls[i][n].pc = "header" /\ calls'[i][n].pc # "header"
       /\ calls'[i][n].hres.state = "resolved") =>
      /\ heap'[hdr'[i]] = heap[hdr[i]]
      /\ ~IsFn(mws[i].body) => TransportCalled(i, n)
      /\ (TransportCalled(i, n) /\ calls[i][n].harg = hdr[i]) =>
           HoldsWrites(heap'[hdr'[i]], calls[i][n].hwrites)

----------------------------------------------------------------------------
(* SpecJSON: one instance, header mutators that are accepted and rejected,    *)
(* and the dispatchers that set a header themselves                           *)

JSONHeaderPairs ==
  {<<Str("X-Sig"), Str("a")>>, <<Str("X-Sig"), Num(7)>>, <<Null, Str("a")>>,
   <<Sym("s"), Undefined>>}

InitJSON == InitWith({1}, URIs)

NextJSON ==
  \/ \E i \in Insts, kv \in JSONHeaderPairs : withHeader(i, kv[1], kv[2])
  \/ \E i \in Insts, type \in {text, Num(1), Null} : withContentType(i, type)
  \/ \E i \in Insts : withMiddlewareMethod(i, Fn("m1"), Undefined)
  \/ \E i \in Insts : Len(calls[i]) < MaxCall /\ get(i, Undefined)
  \/ \E i \in Insts : Len(calls[i]) < MaxCall /\ postJSON(i, Undefined)
  \/ \E i \in Insts : Len(calls[i]) < MaxCall /\ putJSON(i, Undefined)
  \/ \E i \in Insts, n \in 1..MaxCall : HeaderResolved(i, n)
  \/ \E i \in Insts, n \in 1..MaxCall, w \in Signatures : HeaderWrites(i, n, w[1], w[2])

SpecJSON == InitJSON /\ [][NextJSON]_vars

C16_Strings ==
  \A i \in Insts : \A p \in DOMAIN heap[hdr[i]] :
    p \in STRING /\ heap[hdr[i]][p].k = "string"

C16_Atomic ==
  \A i \in Insts :
    (/\ last' # last
     /\ last'.inst = i
     /\ last'.op \in {"withHeader", "withContentType"}
     /\ last'.threw # "none") =>
      hdr'[i] = hdr[i] /\ heap'[hdr'[i]] = heap[hdr[i]]

\* C16: whatever mutators (accepted or rejected) and dispatchers, postJSON and
\* putJSON among them, were called, every key and every value of the header
\* mapping is a string, and a rejected withHeader leaves the mapping as it was.
C16_HeaderStrings == []C16_Strings /\ [][C16_Atomic]_vars

\* withHeader('X-Sig', 7) was rejected and left the headers set before it
C16_Witness ==
  /\ last.op = "withHeader" /\ last.threw = "InvalidRequestHeader"
  /\ last.args = <<Str("X-Sig"), Num(7)>>
  /\ heap[hdr[1]] = [p \in {"Content-Type", "X-Sig"} |->
                       IF p = "X-Sig" THEN Str("a") ELSE Str("application/json")]
  /\ \E c \in AllCalls : c.op = "putJSON"

\* C17: an accepted withHeader(key, value) sets the header key to value, over
\* an earlier value of the same key (keys differing in case are different
\* keys), keeps every other header, the body and the middleware slots, and
\* returns the instance it was called on.
C17_Step ==
  \A i \in Insts :
    (/\ last' # last
     /\ last'.op = "withHeader"
     /\ last'.inst = i
     /\ last'.threw = "none") =>
      LET key   == last'.args[1].s
          value == last'.args[2]
      IN  /\ DOMAIN heap'[hdr'[i]] = DOMAIN heap[hdr[i]] \cup {key}
          /\ heap'[hdr'[i]][key] = value
          /\ \A p \in DOMAIN heap[hdr[i]] \ {key} : heap'[hdr'[i]][p] = heap[hdr[i]][p]
          /\ body'[i] = body[i]
          /\ mws'[i] = mws[i]
          /\ last'.ret = i

C17_LastWriteWins == [][C17_Step]_vars

\* Content-Type was set last, beside X-Sig and the key that differs in case only
C17_Witness ==
  /\ last.op = "withHeader" /\ last.threw = "none"
  /\ last.args = <<Str("Content-Type"), Str("text/plain")>>
  /\ heap[hdr[1]] = [p \in {"Content-Type", "X-Sig", "x-sig"} |->
                       CASE p = "Content-Type" -> Str("text/plain")
                         [] p = "X-Sig" -> Str("a")
                         [] p = "x-sig" -> Str("")]
  /\ body[1] # Null /\ mws[1].header # Null

\* the probes of which the claim says that at most one holds
Probes ==
  {"isNaN", "isArray", "isSymbol", "isString", "isObject", "isNumber", "isBoolean",
   "isFunction"}

\* C18: on every value handed to a mutator, typeOf answers 'null' for null,
\* 'array' for an array and 'NaN' for the number NaN (none of them object or
\* number), and the typeof tag for all else; isNotString is the negation of
\* isString, isUndefinedOrNull holds of null and undefined only, and at most
\* one of the eight probes holds.
C18_Classifies ==
  \A n \in DOMAIN last.args :
    LET v == last.args[n]
        t == typeOf(v)
        numericNaN == v.k = "number" /\ v.nan
    IN  /\ v.k = "null" => (actualType(v) = "null" /\ ~t.isObject)
        /\ v.k = "array" => (actualType(v) = "array" /\ t.isArray /\ ~t.isObject)
        /\ numericNaN => (actualType(v) = "NaN" /\ t.isNaN /\ ~t.isNumber)
        /\ (v.k \notin {"null", "array"} /\ ~numericNaN) => actualType(v) = v.k
        /\ t.isNotString = ~t.isString
        /\ t.isUndefinedOrNull = (v.k \in {"null", "undefined"})
        /\ Cardinality({f \in Probes : t[f]}) <= 1
        /\ v.k \in {"null", "undefined"} => {f \in Probes : t[f]} = {}

\* withHeader classified a null key and refused it
C18_Witness ==
  /\ last.op = "withHeader" /\ last.args = <<Null, Str("a")>>
  /\ last.threw = "InvalidRequestHeader"
  /\ ~typeOf(last.args[1]).isObject /\ typeOf(last.args[1]).isUndefinedOrNull

----------------------------------------------------------------------------
(* SpecLive: SpecAsync's dispatches with middlewares whose results resolve,   *)
(* and a transport whose promise is fulfilled or rejected. The event loop     *)
(* resumes withMiddleware once the awaited result has resolved: weak fairness *)
(* of the two resumptions.                                                    *)

Outcomes == {Resolved} \cup {Rejected(e) : e \in Errors}

InitLive == InitWith({1}, URIs)

NextLive ==
  \/ \E i \in Insts : withHeader(i, Str("X-Sig"), Str("a"))
  \/ \E i \in Insts : withMiddlewareMethod(i, Fn("m1"), Undefined)
  \/ \E i \in Insts : withMiddlewareMethod(i, Undefined, Fn("m2"))
  \/ \E i \in Insts : Len(calls[i]) < MaxAsync /\ get(i, Undefined)
  \/ \E i \in Insts, n \in 1..MaxAsync : HeaderResolved(i, n)
  \/ \E i \in Insts, n \in 1..MaxAsync : BodyResolved(i, n)
  \/ \E i \in Insts, n \in 1..MaxAsync, o \in Outcomes : TransportSettles(i, n, o)

SpecLive ==
  /\ InitLive
  /\ [][NextLive]_vars
  /\ \A n \in 1..MaxAsync : WF_vars(HeaderResolved(1, n))
  /\ \A n \in 1..MaxAsync : WF_vars(BodyResolved(1, n))

C19_Once == \A c \in AllCalls : Len(c.fetch) <= 1

C19_Outcome ==
  \A c \in AllCalls :
    /\ c.fetch = <<>> => c.promise.state = "pending"
    /\ (c.fetch # <<>> /\ c.tres.state = "pending") => c.promise.state = "transport"
    /\ (c.fetch # <<>> /\ c.tres.state # "pending") => c.promise = c.tres

C19_Eventually ==
  \A n \in 1..MaxAsync :
    (n \in DOMAIN calls[1]) ~> (n \in DOMAIN calls[1] /\ Len(calls[1][n].fetch) = 1)

\* C19: when the results of the registered middlewares resolve, every dispatch
\* comes to call the transport, none calls it more than once, and the future
\* the dispatcher returned settles as the transport's promise does.
C19_TransportOnce == []C19_Once /\ []C19_Outcome /\ C19_Eventually

\* a dispatch through both middlewares whose transport failed
C19_Witness ==
  \E c \in AllCalls :
    /\ IsFn(c.at.header) /\ IsFn(c.at.body)
    /\ Len(c.hlog) = 1 /\ Len(c.blog) = 1 /\ Len(c.fetch) = 1
    /\ c.tres = Rejected("boom") /\ c.promise = Rejected("boom")

\* C20, the dispatcher call: with no middleware registered it calls the
\* transport itself; with a header middleware registered it calls that, and
\* neither the body middleware nor the transport.
C20_Dispatch ==
  \A i \in Insts : Dispatched(i) =>
    LET d == NewestCall(i)
    IN  /\ (~IsFn(mws[i].header) /\ ~IsFn(mws[i].body)) =>
             (Len(d.fetch) = 1 /\ d.hlog = <<>> /\ d.blog = <<>>)
        /\ IsFn(mws[i].header) =>
             /\ d.hlog = <<<<mws[i].header, heap[hdr[i]]>>>>
             /\ d.hres.state = "pending"
             /\ d.blog = <<>> /\ d.fetch = <<>>

\* C20, the body: after a header middleware, the body middleware is called in
\* the step in which the header middleware's result resolves, and it is the
\* slot and the body of that step that decide whether and with what.
C20_Resume ==
  \A i \in Insts : \A n \in DOMAIN calls[i] :
    LET c == calls[i][n]
        d == calls'[i][n]
    IN  /\ (c.blog = <<>> /\ d.blog # <<>>) =>
             (c.hres.state = "pending" /\ d.hres.state = "resolved")
        /\ (c.hres.state = "pending" /\ d.hres.state = "resolved") =>
             IF IsFn(mws[i].body)
             THEN d.blog = <<<<mws[i].body, body[i]>>>> /\ d.fetch = <<>>
             ELSE d.blog = <<>> /\ Len(d.fetch) = 1

\* C20: with no middleware registered the transport is called within the
\* dispatcher call, so before any mutator called after it; with a header
\* middleware registered that is called within the dispatcher call, and the body
\* slot and the body are read when its result has resolved.
C20_WithinCall == [][C20_Dispatch /\ C20_Resume]_vars

\* a body middleware registered, and a body set, while the header middleware
\* was pending: both were read after it resolved
C20_Witness ==
  \E c \in AllCalls :
    /\ IsFn(c.at.header) /\ ~IsFn(c.at.body) /\ c.at.bodyval = Null
    /\ c.hres.state = "resolved"
    /\ c.blog = <<<<Fn("m2"), Obj(<<<<"a", Num(1)>>>>)>>>>

=============================================================================
